---- MODULE Spec2Model ----
(***************************************************************************)
(* A model of lsst.meas.base: the catalog-calculation plugin scheduler     *)
(* (catalogCalculation.py) and the aperture-correction applier             *)
(* (applyApCorr.py).                                                        *)
(*                                                                         *)
(* Two specifications share the module.  Spec drives the scheduler:        *)
(* construction (initializePlugins) and one run (callCompute), one plugin  *)
(* invocation per step.  SpecApCorr drives the aperture corrector.         *)
(***************************************************************************)
EXTENDS Integers, Sequences, FiniteSets, TLC

VARIABLES
    \* ---- scheduler (CatalogCalculationTask) ----
    config,         \* config.plugins.names: the set of configured plugin names
    nRecords,       \* len(catalog); the records are 1..nRecords, in catalog order
    pc,             \* "new" | "initFailed" | "ready" | "running" | "done" | "aborted"
    initError,      \* the exception type that left __init__, or "none"
    executionDict,  \* self.executionDict: runlevel -> [single, multi] plugin lists
    plugins,        \* self.plugins: the names in the task's PluginMap
    constructed,    \* plugin instances built so far, in order of construction
    schedule,       \* run: the invocations the loops of callCompute go through
    k,              \* number of plugin invocations started in this run
    calls,          \* the invocations made, in order: [level, plug, mode, target,
                    \*   branch], branch being the branch __exit__ took
    last,           \* the latest invocation: its index and what calculate raised
    failCalls,      \* the calls made to plugin.fail: [call, plug, target, error]
    warnings,       \* the log.warn records of CCContext: [call, plug]
    flagged,        \* the <<plug, target>> pairs whose failure flag a fail() set
    nRaised,        \* the invocations of this run whose calculate override raised
    raised,         \* the exception that left run(), or NoError
    \* ---- aperture corrector (ApplyApCorrTask) ----
    apConfig,       \* the task's config: ignoreList, proxies, doFlagApCorrFailures
    apInitWarned,   \* the names the constructor's log.warn listed
    schema,         \* the source schema: its fields and its alias map
    apCorrInfoDict, \* self.apCorrInfoDict.values(), in insertion order
    apPc,           \* where the corrector is: "new", "idle" or a place in run
    catInput,       \* what upstream measured: nSources, flux, fluxErr, flags
    cat,            \* the catalog: cat[s][key], s in 1..nSources
    apCorrMap,      \* the entries of apCorrMap looked up so far: present or not
    evals,          \* the model evaluations made so far, by model and source
    fieldIdx,       \* run: index into apCorrInfoDict of the field in progress
    srcIdx,         \* run: index of the source in progress
    loc,            \* run: the local variables of the source loop's body
    runs,           \* number of runs started
    catAtStart,     \* the catalog as it was when the latest run started
    outcome,        \* what the latest run did for each (field, source)
    apWarnings,     \* fields the latest run warned about (missing model)
    \* ---- reference fetching (ForcedPhotCcdTask.fetchReferences) ----
    unfiltered,     \* what references.fetchInBox returned: [id, parent, footprint]
    frPc,           \* where fetchReferences is: "loop", "done" ("off": unused)
    frIdx,          \* index into unfiltered of the record the loop is at
    references,     \* the catalog being built, then returned
    badParents,     \* ids of the parents skipped for a bad Footprint
    frWarnings      \* the log.warn records: <<kind, id>>

ccVars == <<config, nRecords, pc, initError, executionDict, plugins, constructed,
            schedule, k, calls, last, failCalls, warnings, flagged, nRaised, raised>>

apVars == <<apConfig, apInitWarned, schema, apCorrInfoDict, apPc, catInput, cat, apCorrMap,
            evals, fieldIdx, srcIdx, loc, runs, catAtStart, outcome, apWarnings>>

frVars == <<unfiltered, frPc, frIdx, references, badParents, frWarnings>>

vars == <<ccVars, apVars, frVars>>

----------------------------------------------------------------------------
(* Bounds of the model. *)

\* Largest number of records fetchInBox returns; their ids are 1..MaxRefs.
MaxRefs == 3

\* Largest number of plugins named by config.plugins.
MaxPlugins == 3
\* Largest catalog length.
MaxRecords == 2
\* Largest number of invocations in one run whose calculate raises.
MaxRaised == 2
\* Largest number of sources in the catalog given to the aperture corrector.
MaxSources == 2
\* Largest number of aperture-correction runs on one catalog.
MaxRuns == 2

----------------------------------------------------------------------------
(* The plugin registry and the plugin classes registered in it. *)

\* BasePlugin.DEFAULT_CATALOGCALCULATION, the lowest run level a catalog
\* calculation plugin may declare.
DEFAULT_CATALOGCALCULATION == 5

\* The registered plugin classes.  hasOrder / hasCalculate say whether the
\* class overrides getExecutionOrder / calculate; order is what its
\* getExecutionOrder returns; plugType is the class attribute.
Registry ==
    [ aMulti   |-> [order |-> 5, hasOrder |-> TRUE,  plugType |-> "multi",  hasCalculate |-> TRUE],
      bSingle  |-> [order |-> 5, hasOrder |-> TRUE,  plugType |-> "single", hasCalculate |-> TRUE],
      cSingle  |-> [order |-> 5, hasOrder |-> TRUE,  plugType |-> "single", hasCalculate |-> TRUE],
      dMulti   |-> [order |-> 6, hasOrder |-> TRUE,  plugType |-> "multi",  hasCalculate |-> TRUE],
      eSingle  |-> [order |-> 6, hasOrder |-> TRUE,  plugType |-> "single", hasCalculate |-> TRUE],
      fLow     |-> [order |-> 4, hasOrder |-> TRUE,  plugType |-> "single", hasCalculate |-> TRUE],
      gOther   |-> [order |-> 6, hasOrder |-> TRUE,  plugType |-> "both",   hasCalculate |-> TRUE],
      hNoCalc  |-> [order |-> 5, hasOrder |-> TRUE,  plugType |-> "single", hasCalculate |-> FALSE],
      iNoOrder |-> [order |-> 0, hasOrder |-> FALSE, plugType |-> "single", hasCalculate |-> TRUE] ]

PluginNames == DOMAIN Registry

\* Python's order on the registered names (str.__lt__), as a rank.
NameRank ==
    [ aMulti |-> 1, bSingle |-> 2, cSingle |-> 3, dMulti |-> 4, eSingle |-> 5,
      fLow |-> 6, gOther |-> 7, hNoCalc |-> 8, iNoOrder |-> 9 ]

\* The sequences that list every element of the set S once.
RECURSIVE Orderings(_)
Orderings(S) ==
    IF S = {} THEN { <<>> }
    ELSE UNION { { <<x>> \o s : s \in Orderings(S \ {x}) } : x \in S }

\* config.plugins.apply(): one (executionOrder, name) tuple per configured
\* name, in the order `names` lists them; the order comes from the class's
\* getExecutionOrder(), which raises NotImplementedError when the class does
\* not override it.  (config and PluginClass of the tuple are Registry[name].)
Apply(names) ==
    IF \E i \in 1..Len(names) : ~Registry[names[i]].hasOrder
    THEN [error |-> "NotImplementedError", tuples |-> <<>>]
    ELSE [error |-> "none",
          tuples |-> [i \in 1..Len(names) |-> <<Registry[names[i]].order, names[i]>>]]

\* A plausible slip: the sort looks at the execution order alone, so that
\* plugins of one order stay as the configuration listed them.
TupleLessOrderOnly(a, b) == a[1] < b[1]

\* Tuple comparison as Python compares (executionOrder, name, ...) tuples.
TupleLess(a, b) ==
    \/ a[1] < b[1]
    \/ a[1] = b[1] /\ NameRank[a[2]] < NameRank[b[2]]

RECURSIVE InsertSorted(_, _)
InsertSorted(t, s) ==
    IF s = <<>> THEN <<t>>
    ELSE IF TupleLess(t, Head(s)) THEN <<t>> \o s
    ELSE <<Head(s)>> \o InsertSorted(t, Tail(s))

RECURSIVE SortTuples(_)
SortTuples(s) ==
    IF s = <<>> THEN <<>> ELSE InsertSorted(Head(s), SortTuples(Tail(s)))

\* A plausible slip: the tuples are taken in configuration order.
SortedUnsorted(s) == s

\* sorted(self.config.plugins.apply())
Sorted(s) == SortTuples(s)

----------------------------------------------------------------------------
(* CatalogCalculationTask.initializePlugins *)

EmptyInit ==
    [executionDict |-> << >>, plugins |-> {}, constructed |-> <<>>, error |-> "none"]

\* The body of the for loop, from tuple i on; st is the task so far.
RECURSIVE InitLoop(_, _, _)
InitLoop(tuples, i, st) ==
    IF i > Len(tuples) THEN st
    ELSE
      LET executionOrder == tuples[i][1]
          name == tuples[i][2]
          PluginClass == Registry[name]
          d1 == IF executionOrder \in DOMAIN st.executionDict
                THEN st.executionDict
                ELSE st.executionDict @@
                     (executionOrder :> [single |-> <<>>, multi |-> <<>>])
      IN IF PluginClass.order >= DEFAULT_CATALOGCALCULATION
         THEN LET d2 == IF PluginClass.plugType = "single"
                        THEN [d1 EXCEPT ![executionOrder].single = Append(@, name)]
                        ELSE IF PluginClass.plugType = "multi"
                        THEN [d1 EXCEPT ![executionOrder].multi = Append(@, name)]
                        ELSE d1
              IN InitLoop(tuples, i + 1,
                          [executionDict |-> d2,
                           plugins |-> st.plugins \cup {name},
                           constructed |-> Append(st.constructed, name),
                           error |-> "none"])
         ELSE [st EXCEPT !.executionDict = d1, !.error = "ValueError"]

initializePlugins(applied) == InitLoop(Sorted(applied), 1, EmptyInit)

----------------------------------------------------------------------------
(* CCContext and CatalogCalculationTask.callCompute *)

\* FATAL_EXCEPTIONS = (MemoryError, FatalAlgorithmError)
FATAL_EXCEPTIONS == {"MemoryError", "FatalAlgorithmError"}

\* The exception types a calculate override raises in the model, besides the
\* fatal ones and MeasurementError: strict subclasses of the three named
\* types, an ordinary Exception and a BaseException that is no Exception.
OtherExceptions ==
    {"MeasurementErrorSubclass", "MemoryErrorSubclass",
     "FatalAlgorithmErrorSubclass", "RuntimeError", "KeyboardInterrupt"}

\* An exception object: its exact type, the method that raised it, and the
\* invocation during which it was raised (which tells the objects apart).
Exception(type, origin, call) == [type |-> type, origin |-> origin, call |-> call]
NoError == Exception("none", "none", 0)

\* A plausible slip: FatalAlgorithmError is left out of the fatal branch.
ExitActionOnlyMemoryFatal(exc_type) ==
    IF exc_type = "none" THEN "return"
    ELSE IF exc_type = "MemoryError" THEN "raise"
    ELSE IF exc_type = "MeasurementError" THEN "fail"
    ELSE "warn"

\* A plausible slip: classification with isinstance/issubclass, so that the
\* subclasses are handled like the classes they derive from.
ExitActionIsInstance(exc_type) ==
    IF exc_type = "none" THEN "return"
    ELSE IF exc_type \in FATAL_EXCEPTIONS
                         \cup {"MemoryErrorSubclass", "FatalAlgorithmErrorSubclass"}
    THEN "raise"
    ELSE IF exc_type \in {"MeasurementError", "MeasurementErrorSubclass"} THEN "fail"
    ELSE "warn"

\* A plausible slip: every exception that is not fatal is passed to fail.
ExitActionFailOnAny(exc_type) ==
    IF exc_type = "none" THEN "return"
    ELSE IF exc_type \in FATAL_EXCEPTIONS THEN "raise"
    ELSE "fail"

\* The branch CCContext.__exit__ takes for the exact type of the exception
\* that left the with block ("none": the block returned).
ExitAction(exc_type) ==
    IF exc_type = "none" THEN "return"
    ELSE IF exc_type \in FATAL_EXCEPTIONS THEN "raise"
    ELSE IF exc_type = "MeasurementError" THEN "fail"
    ELSE "warn"

RECURSIVE Ascending(_)
Ascending(S) ==
    IF S = {} THEN <<>>
    ELSE LET m == CHOOSE x \in S : \A y \in S : x <= y
         IN <<m>> \o Ascending(S \ {m})

RECURSIVE Descending(_)
Descending(S) ==
    IF S = {} THEN <<>>
    ELSE LET m == CHOOSE x \in S : \A y \in S : x >= y
         IN <<m>> \o Descending(S \ {m})

\* A plausible slip: the run levels are taken highest first.
RunLevelsDescending(dict) == Descending(DOMAIN dict)

\* sorted(self.executionDict)
RunLevels(dict) == Ascending(DOMAIN dict)

Call(level, plug, mode, target) ==
    [level |-> level, plug |-> plug, mode |-> mode, target |-> target]

\* for plug in self.executionDict[runlevel].multi: one call, on the catalog
\* (target 0).
MultiCalls(dict, level) ==
    [i \in 1..Len(dict[level].multi) |-> Call(level, dict[level].multi[i], "multi", 0)]

\* for plug in self.executionDict[runlevel].single, on record rec.
RecordCalls(dict, level, rec) ==
    [i \in 1..Len(dict[level].single) |-> Call(level, dict[level].single[i], "single", rec)]

\* for measRecord in catalog: ..., from record rec on.
RECURSIVE SingleCalls(_, _, _, _)
SingleCalls(dict, level, rec, n) ==
    IF rec > n THEN <<>>
    ELSE RecordCalls(dict, level, rec) \o SingleCalls(dict, level, rec + 1, n)

\* A plausible slip: the record loop runs before the whole-catalog plugins.
BucketCallsSingleFirst(dict, level, n) ==
    SingleCalls(dict, level, 1, n) \o MultiCalls(dict, level)

\* The body of the runlevel loop: the invocations of one bucket, in order.
BucketCalls(dict, level, n) ==
    MultiCalls(dict, level) \o SingleCalls(dict, level, 1, n)

RECURSIVE LevelCalls(_, _, _, _)
LevelCalls(dict, levels, i, n) ==
    IF i > Len(levels) THEN <<>>
    ELSE BucketCalls(dict, levels[i], n) \o LevelCalls(dict, levels, i + 1, n)

\* The invocations callCompute makes on a catalog of n records when none of
\* them aborts the run, in the order of its loops.
CallOrder(dict, n) == LevelCalls(dict, RunLevels(dict), 1, n)

\* The invocation a running callCompute makes next.
NextCall == schedule[k + 1]

----------------------------------------------------------------------------
(* applyApCorr.py: the schema, ApCorrInfo and ApplyApCorrTask.__init__ *)

\* UseNaiveFluxErr = True
UseNaiveFluxErr == TRUE

\* A field of the schema, name + "_" + suffix, e.g. Field("A", "instFlux").
\* A key is the field it was made for.
Field(name, suffix) == <<name, suffix>>

\* getApCorrNameSet(): the registered flux algorithm names.
ApCorrNameSet == {"A", "C"}

\* AliasMap resolution, then lookup: schema.find(f).key
Resolve(sch, f) == IF f \in DOMAIN sch.aliases THEN sch.aliases[f] ELSE f
\* f in schema
SchemaContains(sch, f) == Resolve(sch, f) \in sch.fields
\* schema.addField(f, ...)
AddField(sch, f) == [sch EXCEPT !.fields = @ \cup {f}]
\* schema.getAliasMap().set(alias, target)
SetAlias(sch, alias, target) ==
    [sch EXCEPT !.aliases = (alias :> target) @@ [g \in DOMAIN @ \ {alias} |-> @[g]]]

\* A plausible slip: a proxy always gets correction columns of its own.
DoApCorrColumnAlways(sch, model, name) == TRUE

\* self.doApCorrColumn = (name == model or model + "_apCorr" not in schema)
DoApCorrColumn(sch, model, name) ==
    name = model \/ ~SchemaContains(sch, Field(model, "apCorr"))

\* ApCorrInfo.__init__(schema, model, name): the info and the schema it leaves.
ApCorrInfo(sch, model, name) ==
    LET doApCorrColumn == DoApCorrColumn(sch, model, name)
        s1 == IF doApCorrColumn
              THEN AddField(AddField(sch, Field(name, "apCorr")), Field(name, "apCorrErr"))
              ELSE SetAlias(SetAlias(sch, Field(name, "apCorr"), Field(model, "apCorr")),
                            Field(name, "apCorrErr"), Field(model, "apCorrErr"))
        s2 == AddField(s1, Field(name, "flag_apCorr"))
    IN [info |-> [name |-> name,
                  modelName |-> Field(model, "instFlux"),
                  modelSigmaName |-> Field(model, "instFluxErr"),
                  instFluxKey |-> Resolve(sch, Field(name, "instFlux")),
                  instFluxErrKey |-> Resolve(sch, Field(name, "instFluxErr")),
                  fluxFlagKey |-> Resolve(sch, Field(name, "flag")),
                  doApCorrColumn |-> doApCorrColumn,
                  apCorrKey |-> Resolve(s1, Field(name, "apCorr")),
                  apCorrErrKey |-> Resolve(s1, Field(name, "apCorrErr")),
                  apCorrFlagKey |-> Field(name, "flag_apCorr")],
        schema |-> s2]

\* for name in apCorrNameSet - ignoreSet: ..., over the names in the order
\* the set yields them; st is [schema, dict].
RECURSIVE DirectLoop(_, _, _)
DirectLoop(names, i, st) ==
    IF i > Len(names) THEN st
    ELSE LET name == names[i]
         IN IF ~SchemaContains(st.schema, Field(name, "instFlux"))
            THEN DirectLoop(names, i + 1, st)
            ELSE LET r == ApCorrInfo(st.schema, name, name)
                 IN DirectLoop(names, i + 1,
                               [schema |-> r.schema, dict |-> Append(st.dict, r.info)])

\* A plausible slip: only the names the direct step built are skipped.
ProxySkippedIfBuilt(name, dict) == \E i \in DOMAIN dict : dict[i].name = name

\* if name in apCorrNameSet: continue ("Already done or ignored"); dict is
\* the apCorrInfoDict built so far.
ProxySkipped(name, dict) == name \in ApCorrNameSet

\* for name, model in self.config.proxies.items(): ...
RECURSIVE ProxyLoop(_, _, _, _)
ProxyLoop(proxies, names, i, st) ==
    IF i > Len(names) THEN st
    ELSE LET name == names[i]
             model == proxies[name]
         IN IF ProxySkipped(name, st.dict)
            THEN ProxyLoop(proxies, names, i + 1, st)
            ELSE IF ~SchemaContains(st.schema, Field(name, "instFlux"))
            THEN ProxyLoop(proxies, names, i + 1, st)
            ELSE LET r == ApCorrInfo(st.schema, model, name)
                 IN ProxyLoop(proxies, names, i + 1,
                              [schema |-> r.schema, dict |-> Append(st.dict, r.info)])

\* ApplyApCorrTask.__init__(schema): directNames and proxyNames are the
\* orders in which the set difference and the proxies dict are iterated.
ApplyApCorrTaskInit(sch, cfg, directNames, proxyNames) ==
    ProxyLoop(cfg.proxies, proxyNames, 1,
              DirectLoop(directNames, 1, [schema |-> sch, dict |-> <<>>]))

\* missingNameSet = ignoreSet - set(apCorrNameSet): warned about, no more.
MissingNameSet(cfg) == cfg.ignoreList \ ApCorrNameSet

\* A plausible slip: ignoreList is not applied to the direct step.
DirectNamesAll(cfg) == ApCorrNameSet

\* apCorrNameSet - ignoreSet: the names the direct step goes through.
DirectNames(cfg) == ApCorrNameSet \ cfg.ignoreList

----------------------------------------------------------------------------
(* ApplyApCorrTask: inputs and state *)

\* The configurations and schemas the corrector is constructed with.
IgnoreLists == { {}, {"B"}, {"A", "B"} }
ProxyMaps == { << >>, ("B" :> "A") @@ ("A" :> "C") }
SchemaNameSets == { {"A", "B"}, {"B", "C"} }

\* The schema upstream measurement leaves: instFlux, instFluxErr and flag
\* for each measured flux name, and no alias.
MeasuredSchema(names) ==
    [fields |-> { Field(n, suf) : n \in names, suf \in {"instFlux", "instFluxErr", "flag"} },
     aliases |-> << >>]

\* Values upstream measured, and values a correction model evaluates to.
InstFluxValues == {3}
InstFluxErrValues == {2}
ApCorrValues == {0, 2}
ApCorrErrValues == {-1, 0, 1}

\* A floating-point column that was never written holds NaN; a written one
\* holds Float(v).
NaN == << >>
Float(v) == <<v>>

\* The value the freshly measured record of source s holds in field f.
InitialValue(f, in, s) ==
    CASE f[2] = "instFlux"    -> in.instFlux
      [] f[2] = "instFluxErr" -> in.instFluxErr
      [] f[2] = "flag"        -> in.flag
      [] f[2] = "flag_apCorr" -> FALSE
      [] OTHER                -> NaN

\* The catalog upstream hands over: records of the final schema.
InitialCatalog(sch, in) ==
    [s \in 1..in.nSources |-> [f \in sch.fields |-> InitialValue(f, in, s)]]

\* The locals of the source loop's body, before line 234 assigns them.
NoLocals ==
    [oldFluxFlagState |-> FALSE, apCorr |-> 1, apCorrErr |-> 0,
     instFlux |-> 0, instFluxErr |-> 0]

\* source.set(key, value)
SourceSet(c, s, key, value) == [c EXCEPT ![s][key] = value]

\* The field (ApCorrInfo) and the source the run is at.
Info == apCorrInfoDict[fieldIdx]
NSources == catInput.nSources

\* Integer square root (floor), for the non-naive error propagation.
ISqrt(n) == CHOOSE r \in 0..n : r * r <= n /\ (r + 1) * (r + 1) > n
Abs(x) == IF x < 0 THEN -x ELSE x

\* A plausible slip: the flag is read after it was set.
OldFluxFlagStateAfterSet(doFlagApCorrFailures, fluxFlag) == doFlagApCorrFailures

\* Lines 234-236: oldFluxFlagState = False, replaced by the source's general
\* failure flag when doFlagApCorrFailures is set.
OldFluxFlagState(doFlagApCorrFailures, fluxFlag) ==
    IF doFlagApCorrFailures THEN fluxFlag ELSE FALSE

\* A plausible slip: the flux is left as measured.
NewInstFluxUnscaled(instFlux, apCorr) == instFlux

\* Line 257: the new instFlux.
NewInstFlux(instFlux, apCorr) == instFlux * apCorr

\* A plausible slip: the flux error is left as measured.
NewInstFluxErrUnscaled(instFlux, instFluxErr, apCorr, apCorrErr) == instFluxErr

\* Lines 258-263: the new instFluxErr.  The non-naive branch,
\* abs(instFlux*apCorr)*sqrt(a*a + b*b) with a = instFluxErr/instFlux and
\* b = apCorrErr/apCorr, equals sqrt((instFluxErr*apCorr)^2 +
\* (instFlux*apCorrErr)^2); it is rounded down here.
NewInstFluxErr(instFlux, instFluxErr, apCorr, apCorrErr) ==
    IF UseNaiveFluxErr
    THEN instFluxErr * apCorr
    ELSE ISqrt((instFluxErr * apCorr) * (instFluxErr * apCorr)
               + (instFlux * apCorrErr) * (instFlux * apCorrErr))

\* A plausible slip: only the value model is required.
ModelMissingValueOnly(apCorrModel, apCorrErrModel) == apCorrModel = "absent"

\* if None in (apCorrModel, apCorrErrModel)
ModelMissing(apCorrModel, apCorrErrModel) ==
    "absent" \in {apCorrModel, apCorrErrModel}

\* A plausible slip: the handler leaves the source loop (break).
BreakOnDomainError(s) == NSources + 1

\* except lsst.pex.exceptions.DomainError: continue -- the source the loop
\* is at next, after a DomainError at source s.
ContinueOnDomainError(s) == s + 1

\* A plausible slip: a zero correction is let through.
RejectedNegativeOnly(apCorr, apCorrErr) == apCorr < 0 \/ apCorrErr < 0

\* if apCorr <= 0.0 or apCorrErr < 0.0
Rejected(apCorr, apCorrErr) == apCorr <= 0 \/ apCorrErr < 0

----------------------------------------------------------------------------
(* ForcedPhotCcdTask.fetchReferences: inputs and operators *)

\* record.getFootprint(): None, or a Footprint with its getArea().
NoFootprint == << >>
Footprint(area) == <<area>>
FootprintValues == { NoFootprint, Footprint(0), Footprint(4) }

\* The parent ids the records with the ids in S may have: 0 (no parent) or
\* the id of a record created before them.
ParentMaps(S) == { par \in [S -> 0..MaxRefs] : \A x \in S : par[x] < x }

\* What fetchInBox returns: the records with the ids that order lists, in
\* that order, with the parents par and the footprints fp gives them.
Unfiltered(order, par, fp) ==
    [i \in 1..Len(order) |->
        [id |-> order[i], parent |-> par[order[i]], footprint |-> fp[order[i]]]]

\* record.getFootprint() is None or record.getFootprint().getArea() == 0
BadFootprint(record) ==
    record.footprint = NoFootprint \/ record.footprint = Footprint(0)

\* references.sort(SourceTable.getParentKey()): the records in ascending
\* order of parent; the order among records of equal parent is the sort
\* algorithm's.
SortByParent(refs) ==
    { [i \in 1..Len(refs) |-> refs[o[i]]] :
        o \in { q \in Orderings(1..Len(refs)) :
                  \A i, j \in 1..Len(refs) :
                      i < j => refs[q[i]].parent <= refs[q[j]].parent } }

\* fetchReferences, not in use.
IdleFr ==
    /\ unfiltered = <<>>
    /\ frPc = "off"
    /\ frIdx = 0
    /\ references = <<>>
    /\ badParents = {}
    /\ frWarnings = <<>>

----------------------------------------------------------------------------
(* The scheduler's actions *)

InitCC ==
    /\ config \in { c \in SUBSET PluginNames : Cardinality(c) <= MaxPlugins }
    /\ nRecords \in 0..MaxRecords
    /\ pc = "new"
    /\ initError = "none"
    /\ executionDict = << >>
    /\ plugins = {}
    /\ constructed = <<>>
    /\ schedule = <<>>
    /\ k = 0
    /\ calls = <<>>
    /\ last = [call |-> 0, exc |-> "none"]
    /\ failCalls = <<>>
    /\ warnings = <<>>
    /\ flagged = {}
    /\ nRaised = 0
    /\ raised = NoError

\* CatalogCalculationTask.__init__: apply() lists the configured plugins in
\* any order; initializePlugins sorts them and builds the buckets.
Construct ==
    /\ pc = "new"
    /\ \E names \in Orderings(config) :
         LET applied == Apply(names)
             st == initializePlugins(applied.tuples)
         IN IF applied.error # "none"
            THEN /\ initError' = applied.error
                 /\ pc' = "initFailed"
                 /\ UNCHANGED <<executionDict, plugins, constructed>>
            ELSE /\ initError' = st.error
                 /\ pc' = IF st.error = "none" THEN "ready" ELSE "initFailed"
                 /\ executionDict' = st.executionDict
                 /\ plugins' = st.plugins
                 /\ constructed' = st.constructed
    /\ UNCHANGED <<config, nRecords, schedule, k, calls, last, failCalls,
                   warnings, flagged, nRaised, raised>>
    /\ UNCHANGED <<apVars, frVars>>

\* run(measCat) enters callCompute, whose loops go through the buckets of
\* executionDict and the records of the catalog.
Run ==
    /\ pc = "ready"
    /\ pc' = "running"
    /\ schedule' = CallOrder(executionDict, nRecords)
    /\ UNCHANGED <<config, nRecords, initError, executionDict, plugins,
                   constructed, k, calls, last, failCalls, warnings, flagged,
                   nRaised, raised>>
    /\ UNCHANGED <<apVars, frVars>>

\* One pass through `with CCContext(plug, cat, self.log): plug.calculate(cat)`:
\* calculate returns (exc_type "none") or raises an exception of exactly type
\* exc_type, and __exit__ handles it; failRaises says whether the plugin's
\* fail, if __exit__ calls it, raises instead of returning.
Invoke(exc_type, failRaises) ==
    /\ pc = "running"
    /\ k < Len(schedule)
    /\ LET c == NextCall
           exc == IF exc_type = "none" THEN NoError
                  ELSE Exception(exc_type, "calculate", k + 1)
           branch == ExitAction(exc_type)
           escaping == IF branch = "raise" THEN exc
                       ELSE IF branch = "fail" /\ failRaises
                       THEN Exception("NotImplementedError", "fail", k + 1)
                       ELSE NoError
       IN /\ k' = k + 1
          /\ calls' = Append(calls, [level |-> c.level, plug |-> c.plug,
                                     mode |-> c.mode, target |-> c.target,
                                     branch |-> branch])
          /\ last' = [call |-> k + 1, exc |-> exc_type]
          /\ failCalls' = IF branch = "fail"
                          THEN Append(failCalls, [call |-> k + 1, plug |-> c.plug,
                                                  target |-> c.target, error |-> exc])
                          ELSE failCalls
          /\ flagged' = IF branch = "fail" /\ ~failRaises
                        THEN flagged \cup {<<c.plug, c.target>>}
                        ELSE flagged
          /\ warnings' = IF branch = "warn"
                         THEN Append(warnings, [call |-> k + 1, plug |-> c.plug])
                         ELSE warnings
          /\ raised' = escaping
          /\ pc' = IF escaping = NoError THEN "running" ELSE "aborted"
    /\ UNCHANGED <<config, nRecords, initError, executionDict, plugins,
                   constructed, schedule>>
    /\ UNCHANGED <<apVars, frVars>>

CalculateReturns ==
    /\ pc = "running" /\ k < Len(schedule)
    /\ Registry[NextCall.plug].hasCalculate
    /\ Invoke("none", FALSE)
    /\ UNCHANGED nRaised

CalculateRaisesFatal ==
    /\ pc = "running" /\ k < Len(schedule)
    /\ Registry[NextCall.plug].hasCalculate
    /\ nRaised < MaxRaised
    /\ \E t \in FATAL_EXCEPTIONS : Invoke(t, FALSE)
    /\ nRaised' = nRaised + 1

CalculateRaisesMeasurementError ==
    /\ pc = "running" /\ k < Len(schedule)
    /\ Registry[NextCall.plug].hasCalculate
    /\ nRaised < MaxRaised
    /\ \E failRaises \in BOOLEAN : Invoke("MeasurementError", failRaises)
    /\ nRaised' = nRaised + 1

CalculateRaisesOther ==
    /\ pc = "running" /\ k < Len(schedule)
    /\ Registry[NextCall.plug].hasCalculate
    /\ nRaised < MaxRaised
    /\ \E t \in OtherExceptions : Invoke(t, FALSE)
    /\ nRaised' = nRaised + 1

\* CatalogCalculationPlugin.calculate, not overridden: raise NotImplementedError()
CalculateNotImplemented ==
    /\ pc = "running" /\ k < Len(schedule)
    /\ ~Registry[NextCall.plug].hasCalculate
    /\ Invoke("NotImplementedError", FALSE)
    /\ UNCHANGED nRaised

\* The loops of callCompute are exhausted: run returns.
RunReturns ==
    /\ pc = "running"
    /\ k = Len(schedule)
    /\ pc' = "done"
    /\ UNCHANGED <<config, nRecords, initError, executionDict, plugins,
                   constructed, schedule, k, calls, last, failCalls, warnings, flagged,
                   nRaised, raised>>
    /\ UNCHANGED <<apVars, frVars>>

NextCC ==
    \/ Construct
    \/ Run
    \/ CalculateReturns
    \/ CalculateRaisesFatal
    \/ CalculateRaisesMeasurementError
    \/ CalculateRaisesOther
    \/ CalculateNotImplemented
    \/ RunReturns

\* The aperture corrector, not in use.
IdleAp ==
    /\ apConfig = << >>
    /\ apInitWarned = {}
    /\ schema = << >>
    /\ apCorrInfoDict = <<>>
    /\ apPc = "off"
    /\ catInput = << >>
    /\ cat = <<>>
    /\ apCorrMap = << >>
    /\ evals = << >>
    /\ fieldIdx = 0
    /\ srcIdx = 0
    /\ loc = NoLocals
    /\ runs = 0
    /\ catAtStart = <<>>
    /\ outcome = << >>
    /\ apWarnings = {}

Init == InitCC /\ IdleAp /\ IdleFr

Next == NextCC

\* The scheduler: construction, then one run.
Spec == Init /\ [][Next]_vars

----------------------------------------------------------------------------
(* The aperture corrector's actions *)

InitAp ==
    /\ apConfig \in [ignoreList : IgnoreLists, proxies : ProxyMaps,
                     doFlagApCorrFailures : BOOLEAN]
    /\ schema \in { MeasuredSchema(names) : names \in SchemaNameSets }
    /\ catInput \in UNION { [nSources : {n}, instFlux : InstFluxValues,
                             instFluxErr : InstFluxErrValues,
                             flag : BOOLEAN] : n \in 0..MaxSources }
    /\ apCorrInfoDict = <<>>
    /\ apInitWarned = {}
    /\ apPc = "new"
    /\ cat = <<>>
    /\ apCorrMap = << >>
    /\ evals = << >>
    /\ fieldIdx = 0
    /\ srcIdx = 0
    /\ loc = NoLocals
    /\ runs = 0
    /\ catAtStart = <<>>
    /\ outcome = << >>
    /\ apWarnings = {}

\* The scheduler, not in use.
IdleCC ==
    /\ config = {}
    /\ nRecords = 0
    /\ pc = "off"
    /\ initError = "none"
    /\ executionDict = << >>
    /\ plugins = {}
    /\ constructed = <<>>
    /\ schedule = <<>>
    /\ k = 0
    /\ calls = <<>>
    /\ last = [call |-> 0, exc |-> "none"]
    /\ failCalls = <<>>
    /\ warnings = <<>>
    /\ flagged = {}
    /\ nRaised = 0
    /\ raised = NoError

\* ApplyApCorrTask.__init__(schema), after which upstream measurement fills
\* a catalog with the final schema.
ApConstruct ==
    /\ apPc = "new"
    /\ \E directNames \in Orderings(DirectNames(apConfig)),
          proxyNames \in Orderings(DOMAIN apConfig.proxies) :
         LET st == ApplyApCorrTaskInit(schema, apConfig, directNames, proxyNames)
         IN /\ schema' = st.schema
            /\ apCorrInfoDict' = st.dict
            /\ cat' = InitialCatalog(st.schema, catInput)
    /\ apInitWarned' = MissingNameSet(apConfig)
    /\ apPc' = "idle"
    /\ UNCHANGED <<apConfig, catInput, apCorrMap, evals, fieldIdx, srcIdx, loc,
                   runs, catAtStart, outcome, apWarnings>>
    /\ UNCHANGED <<ccVars, frVars>>

\* run(catalog, apCorrMap) is entered (lines 212-217).
ApRun ==
    /\ apPc = "idle"
    /\ runs < MaxRuns
    /\ runs' = runs + 1
    /\ fieldIdx' = 1
    /\ srcIdx' = 0
    /\ catAtStart' = cat
    /\ outcome' = [x \in { <<apCorrInfoDict[i].name, s>> :
                            i \in DOMAIN apCorrInfoDict, s \in 1..NSources } |-> "none"]
    /\ apWarnings' = {}
    /\ apPc' = "fieldLoop"
    /\ UNCHANGED <<apConfig, apInitWarned, schema, apCorrInfoDict, catInput, cat, apCorrMap,
                   evals, loc>>
    /\ UNCHANGED <<ccVars, frVars>>

\* apCorrMap.get(name): absent or present; a map answers the same way every
\* time it is asked for the same name.
MapGet(name, answer) ==
    IF name \in DOMAIN apCorrMap THEN answer = apCorrMap[name]
    ELSE answer \in {"absent", "present"}

\* Lines 218-225: the next field's two models are looked up; a warning is
\* logged when one is missing.
ApLookup ==
    /\ apPc = "fieldLoop"
    /\ fieldIdx <= Len(apCorrInfoDict)
    /\ \E apCorrModel, apCorrErrModel \in {"absent", "present"} :
         /\ MapGet(Info.modelName, apCorrModel)
         /\ MapGet(Info.modelSigmaName, apCorrErrModel)
         /\ apCorrMap' = (Info.modelName :> apCorrModel)
                         @@ (Info.modelSigmaName :> apCorrErrModel) @@ apCorrMap
         /\ IF ModelMissing(apCorrModel, apCorrErrModel)
            THEN /\ apWarnings' = apWarnings \cup {Info.name}
                 /\ apPc' = "missingLoop"
            ELSE /\ apWarnings' = apWarnings
                 /\ apPc' = "sourceLoop"
    /\ srcIdx' = 1
    /\ UNCHANGED <<apConfig, apInitWarned, schema, apCorrInfoDict, catInput, cat, evals,
                   fieldIdx, loc, runs, catAtStart, outcome>>
    /\ UNCHANGED <<ccVars, frVars>>

\* A plausible slip: a missing model is handled like the other failures,
\* the general failure flag being set with the ap-corr failure flag.
ApFlagMissingAlsoFluxFlag ==
    /\ apPc = "missingLoop"
    /\ srcIdx <= NSources
    /\ cat' = IF apConfig.doFlagApCorrFailures
              THEN SourceSet(SourceSet(cat, srcIdx, Info.apCorrFlagKey, TRUE),
                             srcIdx, Info.fluxFlagKey, TRUE)
              ELSE SourceSet(cat, srcIdx, Info.apCorrFlagKey, TRUE)
    /\ outcome' = [outcome EXCEPT ![<<Info.name, srcIdx>>] = "missing"]
    /\ srcIdx' = srcIdx + 1
    /\ UNCHANGED <<apConfig, apInitWarned, schema, apCorrInfoDict, apPc,
                   catInput, apCorrMap, evals, fieldIdx, loc, runs, catAtStart,
                   apWarnings>>
    /\ UNCHANGED <<ccVars, frVars>>

\* Lines 226-227: one source of a field whose model is missing.
ApFlagMissing ==
    /\ apPc = "missingLoop"
    /\ srcIdx <= NSources
    /\ cat' = SourceSet(cat, srcIdx, Info.apCorrFlagKey, TRUE)
    /\ outcome' = [outcome EXCEPT ![<<Info.name, srcIdx>>] = "missing"]
    /\ srcIdx' = srcIdx + 1
    /\ UNCHANGED <<apConfig, apInitWarned, schema, apCorrInfoDict, apPc, catInput, apCorrMap,
                   evals, fieldIdx, loc, runs, catAtStart, apWarnings>>
    /\ UNCHANGED <<ccVars, frVars>>

\* Line 228, and the end of the source loop (lines 268-275 only log): on to
\* the next field.
ApNextField ==
    /\ apPc \in {"missingLoop", "sourceLoop"}
    /\ srcIdx > NSources
    /\ fieldIdx' = fieldIdx + 1
    /\ srcIdx' = 0
    /\ apPc' = "fieldLoop"
    /\ UNCHANGED <<apConfig, apInitWarned, schema, apCorrInfoDict, catInput, cat, apCorrMap,
                   evals, loc, runs, catAtStart, outcome, apWarnings>>
    /\ UNCHANGED <<ccVars, frVars>>

\* A plausible slip: the source is not flagged as failed at the start.
ApFlagApCorrNotSet ==
    /\ apPc = "sourceLoop"
    /\ srcIdx <= NSources
    /\ apPc' = "flagFlux"
    /\ UNCHANGED <<apConfig, apInitWarned, schema, apCorrInfoDict, catInput, cat, apCorrMap,
                   evals, fieldIdx, srcIdx, loc, runs, catAtStart, outcome,
                   apWarnings>>
    /\ UNCHANGED <<ccVars, frVars>>

\* Lines 231-233: the source is flagged as failed before anything is tried.
ApFlagApCorr ==
    /\ apPc = "sourceLoop"
    /\ srcIdx <= NSources
    /\ cat' = SourceSet(cat, srcIdx, Info.apCorrFlagKey, TRUE)
    /\ apPc' = "flagFlux"
    /\ UNCHANGED <<apConfig, apInitWarned, schema, apCorrInfoDict, catInput, apCorrMap, evals,
                   fieldIdx, srcIdx, loc, runs, catAtStart, outcome, apWarnings>>
    /\ UNCHANGED <<ccVars, frVars>>

\* Lines 234-237: the general failure flag is saved and set.
ApFlagFlux ==
    /\ apPc = "flagFlux"
    /\ loc' = [NoLocals EXCEPT !.oldFluxFlagState =
                   OldFluxFlagState(apConfig.doFlagApCorrFailures,
                                    cat[srcIdx][Info.fluxFlagKey])]
    /\ cat' = IF apConfig.doFlagApCorrFailures
              THEN SourceSet(cat, srcIdx, Info.fluxFlagKey, TRUE)
              ELSE cat
    /\ apPc' = "evaluate"
    /\ UNCHANGED <<apConfig, apInitWarned, schema, apCorrInfoDict, catInput, apCorrMap, evals,
                   fieldIdx, srcIdx, runs, catAtStart, outcome, apWarnings>>
    /\ UNCHANGED <<ccVars, frVars>>

\* model.evaluate(center) for the model stored under `name`, at source s: a
\* DomainError or a value; the same model gives the same answer at the same
\* place every time.
Evaluate(name, s, values, r) ==
    IF <<name, s>> \in DOMAIN evals THEN r = evals[<<name, s>>]
    ELSE r \in [domainError : {TRUE}, value : {0}]
               \cup [domainError : {FALSE}, value : values]

\* Lines 239-246: the models are evaluated at the source's centroid; a
\* DomainError ends the work on this source.
ApEvaluate ==
    /\ apPc = "evaluate"
    /\ \E r \in [domainError : BOOLEAN, value : ApCorrValues \cup {0}],
          e \in [domainError : BOOLEAN, value : ApCorrErrValues \cup {0}] :
         /\ Evaluate(Info.modelName, srcIdx, ApCorrValues, r)
         /\ IF UseNaiveFluxErr \/ r.domainError
            THEN /\ e = [domainError |-> FALSE, value |-> 0]
                 /\ evals' = (<<Info.modelName, srcIdx>> :> r) @@ evals
            ELSE /\ Evaluate(Info.modelSigmaName, srcIdx, ApCorrErrValues, e)
                 /\ evals' = (<<Info.modelName, srcIdx>> :> r)
                             @@ (<<Info.modelSigmaName, srcIdx>> :> e) @@ evals
         /\ IF r.domainError \/ e.domainError
            THEN /\ outcome' = [outcome EXCEPT ![<<Info.name, srcIdx>>] = "domainError"]
                 /\ loc' = NoLocals
                 /\ srcIdx' = ContinueOnDomainError(srcIdx)
                 /\ apPc' = "sourceLoop"
            ELSE /\ outcome' = outcome
                 /\ loc' = [loc EXCEPT !.apCorr = r.value, !.apCorrErr = e.value]
                 /\ srcIdx' = srcIdx
                 /\ apPc' = "writeApCorr"
    /\ UNCHANGED <<apConfig, apInitWarned, schema, apCorrInfoDict, catInput, cat, apCorrMap,
                   fieldIdx, runs, catAtStart, apWarnings>>
    /\ UNCHANGED <<ccVars, frVars>>

\* Lines 248-249: the correction is stored, if this field owns the column.
ApWriteApCorr ==
    /\ apPc = "writeApCorr"
    /\ cat' = IF Info.doApCorrColumn
              THEN SourceSet(cat, srcIdx, Info.apCorrKey, Float(loc.apCorr))
              ELSE cat
    /\ apPc' = "writeApCorrErr"
    /\ UNCHANGED <<apConfig, apInitWarned, schema, apCorrInfoDict, catInput, apCorrMap, evals,
                   fieldIdx, srcIdx, loc, runs, catAtStart, outcome, apWarnings>>
    /\ UNCHANGED <<ccVars, frVars>>

\* Line 250.
ApWriteApCorrErr ==
    /\ apPc = "writeApCorrErr"
    /\ cat' = IF Info.doApCorrColumn
              THEN SourceSet(cat, srcIdx, Info.apCorrErrKey, Float(loc.apCorrErr))
              ELSE cat
    /\ apPc' = "check"
    /\ UNCHANGED <<apConfig, apInitWarned, schema, apCorrInfoDict, catInput, apCorrMap, evals,
                   fieldIdx, srcIdx, loc, runs, catAtStart, outcome, apWarnings>>
    /\ UNCHANGED <<ccVars, frVars>>

\* Lines 252-256: a correction that is not positive is not applied;
\* otherwise the flux and its error are read.
ApCheck ==
    /\ apPc = "check"
    /\ IF Rejected(loc.apCorr, loc.apCorrErr)
       THEN /\ outcome' = [outcome EXCEPT ![<<Info.name, srcIdx>>] = "rejected"]
            /\ loc' = NoLocals
            /\ srcIdx' = srcIdx + 1
            /\ apPc' = "sourceLoop"
       ELSE /\ outcome' = outcome
            /\ loc' = [loc EXCEPT !.instFlux = cat[srcIdx][Info.instFluxKey],
                                  !.instFluxErr = cat[srcIdx][Info.instFluxErrKey]]
            /\ srcIdx' = srcIdx
            /\ apPc' = "setFlux"
    /\ UNCHANGED <<apConfig, apInitWarned, schema, apCorrInfoDict, catInput, cat, apCorrMap,
                   evals, fieldIdx, runs, catAtStart, apWarnings>>
    /\ UNCHANGED <<ccVars, frVars>>

\* Line 257.
ApSetFlux ==
    /\ apPc = "setFlux"
    /\ cat' = SourceSet(cat, srcIdx, Info.instFluxKey,
                        NewInstFlux(loc.instFlux, loc.apCorr))
    /\ apPc' = "setFluxErr"
    /\ UNCHANGED <<apConfig, apInitWarned, schema, apCorrInfoDict, catInput, apCorrMap, evals,
                   fieldIdx, srcIdx, loc, runs, catAtStart, outcome, apWarnings>>
    /\ UNCHANGED <<ccVars, frVars>>

\* Lines 258-263.
ApSetFluxErr ==
    /\ apPc = "setFluxErr"
    /\ cat' = SourceSet(cat, srcIdx, Info.instFluxErrKey,
                        NewInstFluxErr(loc.instFlux, loc.instFluxErr,
                                       loc.apCorr, loc.apCorrErr))
    /\ apPc' = "clearApCorrFlag"
    /\ UNCHANGED <<apConfig, apInitWarned, schema, apCorrInfoDict, catInput, apCorrMap, evals,
                   fieldIdx, srcIdx, loc, runs, catAtStart, outcome, apWarnings>>
    /\ UNCHANGED <<ccVars, frVars>>

\* Line 264.
ApClearApCorrFlag ==
    /\ apPc = "clearApCorrFlag"
    /\ cat' = SourceSet(cat, srcIdx, Info.apCorrFlagKey, FALSE)
    /\ apPc' = "restoreFluxFlag"
    /\ UNCHANGED <<apConfig, apInitWarned, schema, apCorrInfoDict, catInput, apCorrMap, evals,
                   fieldIdx, srcIdx, loc, runs, catAtStart, outcome, apWarnings>>
    /\ UNCHANGED <<ccVars, frVars>>

\* Lines 265-266: the general failure flag gets its saved value back, and
\* the loop goes on to the next source.
ApRestoreFluxFlag ==
    /\ apPc = "restoreFluxFlag"
    /\ cat' = IF apConfig.doFlagApCorrFailures
              THEN SourceSet(cat, srcIdx, Info.fluxFlagKey, loc.oldFluxFlagState)
              ELSE cat
    /\ outcome' = [outcome EXCEPT ![<<Info.name, srcIdx>>] = "corrected"]
    /\ loc' = NoLocals
    /\ srcIdx' = srcIdx + 1
    /\ apPc' = "sourceLoop"
    /\ UNCHANGED <<apConfig, apInitWarned, schema, apCorrInfoDict, catInput, apCorrMap, evals,
                   fieldIdx, runs, catAtStart, apWarnings>>
    /\ UNCHANGED <<ccVars, frVars>>

\* The field loop is exhausted: run returns.
ApRunReturns ==
    /\ apPc = "fieldLoop"
    /\ fieldIdx > Len(apCorrInfoDict)
    /\ apPc' = "idle"
    /\ fieldIdx' = 0
    /\ UNCHANGED <<apConfig, apInitWarned, schema, apCorrInfoDict, catInput, cat, apCorrMap,
                   evals, srcIdx, loc, runs, catAtStart, outcome, apWarnings>>
    /\ UNCHANGED <<ccVars, frVars>>

NextAp ==
    \/ ApConstruct
    \/ ApRun
    \/ ApLookup
    \/ ApFlagMissing
    \/ ApNextField
    \/ ApFlagApCorr
    \/ ApFlagFlux
    \/ ApEvaluate
    \/ ApWriteApCorr
    \/ ApWriteApCorrErr
    \/ ApCheck
    \/ ApSetFlux
    \/ ApSetFluxErr
    \/ ApClearApCorrFlag
    \/ ApRestoreFluxFlag
    \/ ApRunReturns

InitApCorr == IdleCC /\ InitAp /\ IdleFr

\* The aperture corrector: construction, then up to MaxRuns runs.
SpecApCorr == InitApCorr /\ [][NextAp]_vars

----------------------------------------------------------------------------
(* The actions of fetchReferences *)

\* Lines 236-238: the empty catalog, the empty set, and what fetchInBox
\* returned.
InitFr ==
    /\ \E S \in SUBSET (1..MaxRefs) :
         \E order \in Orderings(S), par \in ParentMaps(S),
            fp \in [S -> FootprintValues] :
             unfiltered = Unfiltered(order, par, fp)
    /\ frPc = "loop"
    /\ frIdx = 1
    /\ references = <<>>
    /\ badParents = {}
    /\ frWarnings = <<>>

\* The record the loop is at.
Record == unfiltered[frIdx]

\* Lines 240-243: a child with a bad Footprint is skipped with a warning.
FrSkipChild ==
    /\ frPc = "loop" /\ frIdx <= Len(unfiltered)
    /\ BadFootprint(Record)
    /\ Record.parent # 0
    /\ frWarnings' = Append(frWarnings, <<"child", Record.id>>)
    /\ frIdx' = frIdx + 1
    /\ UNCHANGED <<unfiltered, frPc, references, badParents>>
    /\ UNCHANGED <<ccVars, apVars>>

\* Lines 240, 244-246: a parent with a bad Footprint is skipped with a
\* warning and remembered.
FrSkipParent ==
    /\ frPc = "loop" /\ frIdx <= Len(unfiltered)
    /\ BadFootprint(Record)
    /\ Record.parent = 0
    /\ frWarnings' = Append(frWarnings, <<"parent", Record.id>>)
    /\ badParents' = badParents \cup {Record.id}
    /\ frIdx' = frIdx + 1
    /\ UNCHANGED <<unfiltered, frPc, references>>
    /\ UNCHANGED <<ccVars, apVars>>

\* Lines 247-248: a record with a good Footprint whose parent is not known
\* to be bad is appended.
FrAppend ==
    /\ frPc = "loop" /\ frIdx <= Len(unfiltered)
    /\ ~BadFootprint(Record)
    /\ Record.parent \notin badParents
    /\ references' = Append(references, Record)
    /\ frIdx' = frIdx + 1
    /\ UNCHANGED <<unfiltered, frPc, badParents, frWarnings>>
    /\ UNCHANGED <<ccVars, apVars>>

\* Line 247, false: a record with a good Footprint whose parent was skipped
\* is left out, silently.
FrLeaveOut ==
    /\ frPc = "loop" /\ frIdx <= Len(unfiltered)
    /\ ~BadFootprint(Record)
    /\ Record.parent \in badParents
    /\ frIdx' = frIdx + 1
    /\ UNCHANGED <<unfiltered, frPc, references, badParents, frWarnings>>
    /\ UNCHANGED <<ccVars, apVars>>

\* Lines 249-251: the catalog is sorted by parent and returned.
FrSortAndReturn ==
    /\ frPc = "loop" /\ frIdx > Len(unfiltered)
    /\ references' \in SortByParent(references)
    /\ frPc' = "done"
    /\ UNCHANGED <<unfiltered, frIdx, badParents, frWarnings>>
    /\ UNCHANGED <<ccVars, apVars>>

NextFr ==
    \/ FrSkipChild
    \/ FrSkipParent
    \/ FrAppend
    \/ FrLeaveOut
    \/ FrSortAndReturn

InitRefs == IdleCC /\ IdleAp /\ InitFr

\* fetchReferences: one call.
SpecRefs == InitRefs /\ [][NextFr]_vars

----------------------------------------------------------------------------
(* Properties of the scheduler *)

\* The invocations made so far of plugin plug on target (0: the catalog).
CallsOf(plug, target) ==
    { i \in DOMAIN calls : calls[i].plug = plug /\ calls[i].target = target }

FailCallsFor(i) == { j \in DOMAIN failCalls : failCalls[j].call = i }
WarningsFor(i) == { j \in DOMAIN warnings : warnings[j].call = i }

BucketLevels == DOMAIN executionDict
SinglePlugins(level) ==
    { executionDict[level].single[n] : n \in 1..Len(executionDict[level].single) }
MultiPlugins(level) ==
    { executionDict[level].multi[n] : n \in 1..Len(executionDict[level].multi) }

\* Every record-mode plugin of every bucket has been invoked exactly once on
\* every record of the catalog.
EverySingleOncePerRecord ==
    \A level \in BucketLevels : \A plug \in SinglePlugins(level) :
        \A rec \in 1..nRecords : Cardinality(CallsOf(plug, rec)) = 1

\* C1: during callCompute the buckets are processed in ascending execution
\* order: an invocation of a plugin of a bucket with a higher execution
\* order never comes before an invocation of a plugin of a lower one.
C1_BucketsAscending ==
    \A i, j \in DOMAIN calls :
        calls[i].level < calls[j].level => i < j

C1_Witness ==
    /\ pc = "done"
    /\ \E i, j \in DOMAIN calls :
         /\ calls[i].level < calls[j].level
         /\ calls[i].mode = "single" /\ calls[i].target = nRecords
         /\ calls[j].mode = "multi"

\* C2: in a run that is not aborted, every catalog-mode plugin of every
\* bucket is invoked exactly once, on the whole catalog; and in any run the
\* catalog-mode invocations of a bucket all precede the record-mode
\* invocations of the same bucket.
C2_MultiOnceBeforeSingle ==
    /\ \A i, j \in DOMAIN calls :
         ( /\ calls[i].level = calls[j].level
           /\ calls[i].mode = "multi"
           /\ calls[j].mode = "single" ) => i < j
    /\ \A i \in DOMAIN calls :
         calls[i].target = 0 <=> calls[i].plug \in MultiPlugins(calls[i].level)
    /\ pc = "done" =>
         \A level \in BucketLevels : \A plug \in MultiPlugins(level) :
            /\ Cardinality(CallsOf(plug, 0)) = 1
            /\ \A rec \in 1..nRecords : CallsOf(plug, rec) = {}

C2_Witness ==
    /\ pc = "done"
    /\ nRecords >= 2
    /\ \E level \in BucketLevels :
         /\ Cardinality(MultiPlugins(level)) >= 1
         /\ Cardinality(SinglePlugins(level)) >= 2

\* C3 (as claimed): in every run that has ended and was not aborted by a
\* fatal error (MemoryError, FatalAlgorithmError), each record-mode plugin of
\* each bucket has been invoked exactly once on each record.
C3_Claimed ==
    ( /\ pc \in {"done", "aborted"}
      /\ raised.type \notin FATAL_EXCEPTIONS ) => EverySingleOncePerRecord

\* C3, for the runs that return: each record-mode plugin has then been
\* invoked exactly once on each record, whatever calculate raised before.
C3_CompletedRuns ==
    /\ pc = "done" => EverySingleOncePerRecord
    /\ \A level \in BucketLevels : \A plug \in SinglePlugins(level) :
         \A rec \in 1..nRecords : Cardinality(CallsOf(plug, rec)) <= 1

\* The latest invocation, when calculate raised an exception of one of the
\* types in T.
LatestRaised(T) == last.call > 0 /\ last.exc \in T

\* C4 (as claimed): when calculate raises a MeasurementError, the plugin's
\* fail is called exactly once, with the target and the error of that
\* invocation, the plugin's failure flag gets set on the target, and the run
\* is not ended by it.
C4_Claimed ==
    LatestRaised({"MeasurementError"}) =>
        /\ Cardinality(FailCallsFor(last.call)) = 1
        /\ \A j \in FailCallsFor(last.call) :
             /\ failCalls[j].plug = calls[last.call].plug
             /\ failCalls[j].target = calls[last.call].target
             /\ failCalls[j].error = Exception("MeasurementError", "calculate", last.call)
        /\ <<calls[last.call].plug, calls[last.call].target>> \in flagged
        /\ pc # "aborted"

\* C4, without its last part: fail is called exactly once with the target
\* and the error of the invocation; the flag is set and the run goes on
\* unless that call to fail raised, which ends the run.
C4_FailCalledOnce ==
    /\ LatestRaised({"MeasurementError"}) =>
        /\ Cardinality(FailCallsFor(last.call)) = 1
        /\ \A j \in FailCallsFor(last.call) :
             /\ failCalls[j].plug = calls[last.call].plug
             /\ failCalls[j].target = calls[last.call].target
             /\ failCalls[j].error = Exception("MeasurementError", "calculate", last.call)
        /\ \/ /\ <<calls[last.call].plug, calls[last.call].target>> \in flagged
              /\ pc # "aborted"
           \/ /\ pc = "aborted"
              /\ raised = Exception("NotImplementedError", "fail", last.call)
    /\ \A i \in DOMAIN calls :
         Cardinality(FailCallsFor(i)) = IF calls[i].branch = "fail" THEN 1 ELSE 0

\* C5: a MemoryError or FatalAlgorithmError raised by calculate ends the run:
\* the run is aborted with that very exception, fail is not called for it
\* and no warning is logged; and an aborted run makes no further invocation.
C5_FatalAborts ==
    /\ LatestRaised(FATAL_EXCEPTIONS) =>
        /\ pc = "aborted"
        /\ raised = Exception(last.exc, "calculate", last.call)
        /\ FailCallsFor(last.call) = {}
        /\ WarningsFor(last.call) = {}
    /\ pc = "aborted" =>
        /\ raised.call = Len(calls)
        /\ last.call = Len(calls)
        /\ k = Len(calls)
    /\ \A i \in DOMAIN calls : calls[i].branch = "raise" => i = Len(calls)

C5_Witness ==
    /\ pc = "aborted"
    /\ raised.type = "FatalAlgorithmError"
    /\ Len(calls) >= 2
    /\ Len(calls) < Len(schedule)

\* C6: an exception from calculate that is neither fatal nor a
\* MeasurementError is logged as one warning naming the plugin, fail is not
\* called, the run is not ended by it, and a run that returns has still
\* invoked every record-mode plugin on every record.
C6_OtherWarnsAndContinues ==
    /\ LatestRaised(OtherExceptions \cup {"NotImplementedError"}) =>
        /\ Cardinality(WarningsFor(last.call)) = 1
        /\ \A j \in WarningsFor(last.call) : warnings[j].plug = calls[last.call].plug
        /\ FailCallsFor(last.call) = {}
        /\ pc \in {"running", "done"}
        /\ raised = NoError
    /\ \A i \in DOMAIN calls :
        calls[i].branch = "warn" =>
            /\ Cardinality(WarningsFor(i)) = 1
            /\ FailCallsFor(i) = {}
            /\ raised.call # i
    /\ pc = "done" => EverySingleOncePerRecord

C6_Witness ==
    /\ pc = "done"
    /\ nRecords >= 2
    /\ \E i \in DOMAIN calls :
         /\ calls[i].branch = "warn"
         /\ Registry[calls[i].plug].hasCalculate
         /\ calls[i].target = 1
         /\ \E j \in DOMAIN calls :
              j > i /\ calls[j].plug = calls[i].plug /\ calls[j].target = 2
         /\ \E j \in DOMAIN calls : calls[j].level > calls[i].level

\* The configured plugins whose getExecutionOrder is below the minimum.
BelowMinimum ==
    { p \in config : Registry[p].hasOrder
                     /\ Registry[p].order < DEFAULT_CATALOGCALCULATION }
LacksOrder == { p \in config : ~Registry[p].hasOrder }
LacksCalculate == { p \in config : ~Registry[p].hasCalculate }

\* C7: if a configured plugin's execution order is below
\* DEFAULT_CATALOGCALCULATION, construction fails (with ValueError, when
\* every plugin has a getExecutionOrder) and no plugin instance has been
\* constructed, whatever else is configured.
C7_LowOrderFailsBeforeAnyInstance ==
    (BelowMinimum # {} /\ pc # "new") =>
        /\ pc = "initFailed"
        /\ initError = IF LacksOrder = {} THEN "ValueError" ELSE "NotImplementedError"
        /\ constructed = <<>>
        /\ plugins = {}

C7_Witness ==
    /\ pc = "initFailed"
    /\ initError = "ValueError"
    /\ Cardinality(config) >= 3
    /\ \E p \in config : Registry[p].order > DEFAULT_CATALOGCALCULATION

\* C8 (as claimed): a configured plugin without a getExecutionOrder or a
\* calculate override makes construction fail.
C8_Claimed ==
    ((LacksOrder \cup LacksCalculate) # {} /\ pc # "new") => pc = "initFailed"

\* C8, amended: a missing getExecutionOrder makes construction fail with
\* NotImplementedError before any instance is built; a missing calculate
\* does not: the plugin is constructed like any other, and each invocation of
\* it in a run raises NotImplementedError, which is logged as a warning,
\* without a call to fail and without ending the run.
C8_OnlyOrderCheckedAtConstruction ==
    /\ (LacksOrder # {} /\ pc # "new") =>
          /\ pc = "initFailed"
          /\ initError = "NotImplementedError"
          /\ constructed = <<>>
    /\ (LacksOrder = {} /\ BelowMinimum = {} /\ pc # "new") =>
          /\ pc # "initFailed"
          /\ LacksCalculate \subseteq plugins
    /\ (last.call > 0 /\ calls[last.call].plug \in LacksCalculate) =>
          last.exc = "NotImplementedError"
    /\ \A i \in DOMAIN calls :
          calls[i].plug \in LacksCalculate =>
             /\ calls[i].branch = "warn"
             /\ Cardinality(WarningsFor(i)) = 1
             /\ FailCallsFor(i) = {}
             /\ raised.call # i
    /\ pc = "done" =>
          \A p \in LacksCalculate : \A rec \in 1..nRecords :
             Cardinality(CallsOf(p, rec)) = 1

C8_Witness ==
    /\ pc = "done"
    /\ nRecords >= 2
    /\ \E i \in DOMAIN calls :
         /\ calls[i].plug \in LacksCalculate
         /\ i < Len(calls)

\* C22 (as claimed): a run that has ended has either made every invocation
\* of every bucket, plugin and record, or was aborted by a fatal-category
\* error (MemoryError, FatalAlgorithmError); no other exception ends a run.
C22_Claimed ==
    /\ pc = "done" => Len(calls) = Len(schedule)
    /\ pc = "aborted" => raised.type \in FATAL_EXCEPTIONS

\* The number of places plugin name has in the list s.
Occurrences(s, name) == Cardinality({ n \in DOMAIN s : s[n] = name })

\* The number of places plugin name has in the lists of all buckets.
PlacesHeld(name) ==
    LET levels == { level \in BucketLevels :
                      Occurrences(executionDict[level].single, name)
                        + Occurrences(executionDict[level].multi, name) > 0 }
    IN IF levels = {} THEN 0
       ELSE IF Cardinality(levels) > 1 THEN 2
       ELSE LET level == CHOOSE l \in levels : TRUE
            IN Occurrences(executionDict[level].single, name)
                 + Occurrences(executionDict[level].multi, name)

\* C23 (as claimed): after a successful construction, every plugin in the
\* task's plugin map is held in exactly one list of exactly one bucket, the
\* bucket of its execution order, whatever its plugType; and a run that
\* returned has invoked it, if the catalog has a record.
C23_Claimed ==
    (initError = "none" /\ pc \in {"ready", "running", "done", "aborted"}) =>
        \A name \in plugins :
            /\ PlacesHeld(name) = 1
            /\ Registry[name].order \in BucketLevels
            /\ Occurrences(executionDict[Registry[name].order].single, name)
                 + Occurrences(executionDict[Registry[name].order].multi, name) = 1
            /\ (pc = "done" /\ nRecords >= 1) =>
                 \E i \in DOMAIN calls : calls[i].plug = name

\* The part of C23 that holds: a plugin of plugType single or multi is held
\* in exactly one list, the one of its plugType in the bucket of its
\* execution order; a plugin of any other plugType is in the plugin map and
\* in no list.
C23_ClassifiedPluginsHeldOnce ==
    (initError = "none" /\ pc \in {"ready", "running", "done", "aborted"}) =>
        \A name \in plugins :
            IF Registry[name].plugType \in {"single", "multi"}
            THEN /\ PlacesHeld(name) = 1
                 /\ Registry[name].order \in BucketLevels
                 /\ name \in (IF Registry[name].plugType = "single"
                              THEN SinglePlugins(Registry[name].order)
                              ELSE MultiPlugins(Registry[name].order))
            ELSE PlacesHeld(name) = 0

\* Exception types that derive from a type __exit__ names without being it,
\* and a BaseException that is not an Exception.
NearMisses ==
    {"MeasurementErrorSubclass", "MemoryErrorSubclass",
     "FatalAlgorithmErrorSubclass", "KeyboardInterrupt"}

SameBucketAndMode(i, j) ==
    /\ i < j
    /\ calls[i].level = calls[j].level
    /\ calls[i].mode = calls[j].mode

\* C28: within one bucket, the plugins of one mode are invoked in ascending
\* order of their names, however the configuration listed them; for the
\* record-wise plugins that order is repeated for each record in catalog
\* order, every plugin finishing a record before the next record starts.
C28_NameOrderWithinBucket ==
    \A i, j \in 1..Len(calls) :
        SameBucketAndMode(i, j) =>
            IF calls[i].mode = "multi"
            THEN NameRank[calls[i].plug] < NameRank[calls[j].plug]
            ELSE \/ calls[i].target < calls[j].target
                 \/ /\ calls[i].target = calls[j].target
                    /\ NameRank[calls[i].plug] < NameRank[calls[j].plug]

C28_Witness ==
    /\ pc = "done"
    /\ nRecords = 2
    /\ \E l \in DOMAIN executionDict :
         /\ Len(executionDict[l].single) >= 2
         /\ Len(calls) >= 2 * Len(executionDict[l].single)
    /\ \E i \in 1..(Len(calls) - 2) :
         /\ calls[i].mode = "single" /\ calls[i + 1].mode = "single"
         /\ calls[i + 2].mode = "single"
         /\ calls[i].level = calls[i + 2].level
         /\ calls[i].target = 1 /\ calls[i + 1].target = 1
         /\ calls[i + 2].target = 2
         /\ calls[i].plug = calls[i + 2].plug
         /\ calls[i].plug # calls[i + 1].plug

----------------------------------------------------------------------------
(* Properties of the aperture corrector *)

\* A run has returned and nothing has been started since.
RunReturned == apPc = "idle" /\ runs >= 1

\* The correction map the run was given lacks the value model or the error
\* model of the field.
AbsentFromMap(info) ==
    \/ info.modelName \in DOMAIN apCorrMap /\ apCorrMap[info.modelName] = "absent"
    \/ info.modelSigmaName \in DOMAIN apCorrMap /\ apCorrMap[info.modelSigmaName] = "absent"

\* The flux and the flux error of field info at source s are what they were
\* when the run began.
FluxUntouched(info, s) ==
    /\ cat[s][info.instFluxKey] = catAtStart[s][info.instFluxKey]
    /\ cat[s][info.instFluxErrKey] = catAtStart[s][info.instFluxErrKey]

\* C9: for a field whose value model or error model is absent from the
\* correction map, once the run has returned every source's ap-corr failure
\* flag of the field is true, no source's flux or flux error of the field
\* has been modified, and the field was warned about.
C9_MissingModelFlagsEverySource ==
    RunReturned =>
        \A i \in DOMAIN apCorrInfoDict :
            AbsentFromMap(apCorrInfoDict[i]) =>
                /\ apCorrInfoDict[i].name \in apWarnings
                /\ \A s \in 1..NSources :
                     /\ cat[s][apCorrInfoDict[i].apCorrFlagKey] = TRUE
                     /\ FluxUntouched(apCorrInfoDict[i], s)

\* A returned run over two sources with a field whose value model is present
\* and whose error model alone is absent, the sources unflagged before.
C9_Witness ==
    /\ RunReturned
    /\ NSources >= 2
    /\ \E i \in DOMAIN apCorrInfoDict :
         /\ apCorrInfoDict[i].modelName \in DOMAIN apCorrMap
         /\ apCorrMap[apCorrInfoDict[i].modelName] = "present"
         /\ apCorrMap[apCorrInfoDict[i].modelSigmaName] = "absent"
         /\ \A s \in 1..NSources :
              /\ catAtStart[s][apCorrInfoDict[i].apCorrFlagKey] = FALSE
              /\ cat[s][apCorrInfoDict[i].apCorrFlagKey] = TRUE

\* Evaluating the value model of field info at source s raises a DomainError.
DomainErrorAt(info, s) ==
    /\ <<info.modelName, s>> \in DOMAIN evals
    /\ evals[<<info.modelName, s>>].domainError

\* C10: once the run has returned, a source at which the evaluation of a
\* field's model raised a DomainError has its flux and flux error of that
\* field unchanged and its ap-corr failure flag true; and every field whose
\* models are present has had its model evaluated at every source, the
\* sources with a positive correction being corrected and unflagged.
C10_DomainErrorSkipsOnlyThatSource ==
    RunReturned =>
        \A i \in DOMAIN apCorrInfoDict : \A s \in 1..NSources :
            LET info == apCorrInfoDict[i]
            IN ~AbsentFromMap(info) =>
                 /\ <<info.modelName, s>> \in DOMAIN evals
                 /\ DomainErrorAt(info, s) =>
                      /\ FluxUntouched(info, s)
                      /\ cat[s][info.apCorrFlagKey] = TRUE
                 /\ ( /\ ~DomainErrorAt(info, s)
                      /\ evals[<<info.modelName, s>>].value > 0 ) =>
                      /\ cat[s][info.instFluxKey]
                           = catAtStart[s][info.instFluxKey] * evals[<<info.modelName, s>>].value
                      /\ cat[s][info.apCorrFlagKey] = FALSE

\* A returned run in which the first field's model raised a DomainError at
\* the first source, the second source of that field was corrected, and a
\* later field with another model was corrected at the first source.
C10_Witness ==
    /\ RunReturned
    /\ NSources >= 2
    /\ Len(apCorrInfoDict) >= 2
    /\ ~AbsentFromMap(apCorrInfoDict[1])
    /\ DomainErrorAt(apCorrInfoDict[1], 1)
    /\ outcome[<<apCorrInfoDict[1].name, 1>>] = "domainError"
    /\ outcome[<<apCorrInfoDict[1].name, 2>>] = "corrected"
    /\ apCorrInfoDict[2].modelName # apCorrInfoDict[1].modelName
    /\ outcome[<<apCorrInfoDict[2].name, 1>>] = "corrected"

\* The value the model of field info evaluates to at source s.
ApCorrAt(info, s) == evals[<<info.modelName, s>>].value

\* The model of field info was evaluated at source s, without a DomainError.
EvaluatedAt(info, s) ==
    /\ ~AbsentFromMap(info)
    /\ <<info.modelName, s>> \in DOMAIN evals
    /\ ~evals[<<info.modelName, s>>].domainError

\* C11: in naive mode, once the run has returned, every source at which the
\* value model of a field evaluated to apCorr > 0 has the flux it had at the
\* start of the run times apCorr, the flux error it had times apCorr, and a
\* false ap-corr failure flag.
C11_NaiveCorrectionScalesBoth ==
    (UseNaiveFluxErr /\ RunReturned) =>
        \A i \in DOMAIN apCorrInfoDict : \A s \in 1..NSources :
            LET info == apCorrInfoDict[i]
            IN (EvaluatedAt(info, s) /\ ApCorrAt(info, s) > 0) =>
                 /\ cat[s][info.instFluxKey]
                      = catAtStart[s][info.instFluxKey] * ApCorrAt(info, s)
                 /\ cat[s][info.instFluxErrKey]
                      = catAtStart[s][info.instFluxErrKey] * ApCorrAt(info, s)
                 /\ cat[s][info.apCorrFlagKey] = FALSE

\* A returned first run that scaled flux 3 and flux error 2 by apCorr 2.
C11_Witness ==
    /\ RunReturned
    /\ runs = 1
    /\ \E i \in DOMAIN apCorrInfoDict : \E s \in 1..NSources :
         LET info == apCorrInfoDict[i]
         IN /\ EvaluatedAt(info, s)
            /\ ApCorrAt(info, s) = 2
            /\ catAtStart[s][info.instFluxKey] = 3
            /\ cat[s][info.instFluxKey] = 6
            /\ cat[s][info.instFluxErrKey] = 4

\* C12: once the run has returned, a source at which the model of a field
\* evaluated to apCorr <= 0 has its flux and flux error of that field as
\* they were at the start of the run and its ap-corr failure flag true; and
\* if the field owns its correction columns, they hold the evaluated apCorr
\* and apCorrErr (0 in naive mode, where the error model is not evaluated).
C12_NonPositiveRejectedButRecorded ==
    RunReturned =>
        \A i \in DOMAIN apCorrInfoDict : \A s \in 1..NSources :
            LET info == apCorrInfoDict[i]
            IN (EvaluatedAt(info, s) /\ ApCorrAt(info, s) <= 0) =>
                 /\ FluxUntouched(info, s)
                 /\ cat[s][info.apCorrFlagKey] = TRUE
                 /\ info.doApCorrColumn =>
                      /\ cat[s][info.apCorrKey] = Float(ApCorrAt(info, s))
                      /\ cat[s][info.apCorrErrKey] = Float(0)

\* A returned first run in which a field that owns its columns got apCorr 0
\* at a source: the columns, never written before, hold 0 and 0.
C12_Witness ==
    /\ RunReturned
    /\ runs = 1
    /\ \E i \in DOMAIN apCorrInfoDict : \E s \in 1..NSources :
         LET info == apCorrInfoDict[i]
         IN /\ EvaluatedAt(info, s)
            /\ ApCorrAt(info, s) = 0
            /\ info.doApCorrColumn
            /\ catAtStart[s][info.apCorrKey] = NaN
            /\ cat[s][info.apCorrKey] = Float(0)
            /\ cat[s][info.instFluxKey] = 3
            /\ outcome[<<info.name, s>>] = "rejected"

\* The name of the algorithm whose models correct field info.
ModelOf(info) == info.modelName[1]

\* Field info is a proxy: it is corrected by another algorithm's models.
IsProxy(info) == ModelOf(info) # info.name

\* C13: for a constructed task, a proxy field B whose model A has its
\* correction columns in the schema got no apCorr/apCorrErr columns of its
\* own: B's two names are aliases of A's columns, B's keys are A's columns
\* (and equal the keys of A's own info), while B's ap-corr failure flag is a
\* field of the schema, under B's name and different from every other
\* info's flag.
C13_ProxySharesColumnsOwnsFlag ==
    apPc # "new" =>
        \A i \in DOMAIN apCorrInfoDict :
            LET B == apCorrInfoDict[i]
                A == ModelOf(B)
            IN (IsProxy(B) /\ Field(A, "apCorr") \in schema.fields) =>
                 /\ ~B.doApCorrColumn
                 /\ Field(B.name, "apCorr") \notin schema.fields
                 /\ Field(B.name, "apCorrErr") \notin schema.fields
                 /\ Resolve(schema, Field(B.name, "apCorr")) = Field(A, "apCorr")
                 /\ Resolve(schema, Field(B.name, "apCorrErr")) = Field(A, "apCorrErr")
                 /\ B.apCorrKey = Field(A, "apCorr")
                 /\ B.apCorrErrKey = Field(A, "apCorrErr")
                 /\ \A j \in DOMAIN apCorrInfoDict :
                      apCorrInfoDict[j].name = A =>
                          /\ apCorrInfoDict[j].apCorrKey = B.apCorrKey
                          /\ apCorrInfoDict[j].apCorrErrKey = B.apCorrErrKey
                 /\ B.apCorrFlagKey = Field(B.name, "flag_apCorr")
                 /\ B.apCorrFlagKey \in schema.fields
                 /\ \A j \in DOMAIN apCorrInfoDict :
                      j # i => apCorrInfoDict[j].apCorrFlagKey # B.apCorrFlagKey

\* A constructed task with a direct info for A and a proxy info for B that
\* aliases A's columns.
C13_Witness ==
    /\ apPc # "new"
    /\ \E i, j \in DOMAIN apCorrInfoDict :
         /\ apCorrInfoDict[j].name = "A"
         /\ ~IsProxy(apCorrInfoDict[j])
         /\ apCorrInfoDict[i].name = "B"
         /\ ModelOf(apCorrInfoDict[i]) = "A"
         /\ ~apCorrInfoDict[i].doApCorrColumn
         /\ Field("A", "apCorr") \in schema.fields

\* c multiplied by itself n times.
RECURSIVE Pow(_, _)
Pow(c, n) == IF n = 0 THEN 1 ELSE c * Pow(c, n - 1)

\* C14: runs on the same catalog with the same correction map are not
\* idempotent.  After the n-th run has returned, a source whose field model
\* evaluates to c > 0 has the originally measured flux times c^n (c*c after
\* the second run); for c # 1 and a non-zero flux this is not the flux the
\* run started from.
C14_RunsMultiply ==
    RunReturned =>
        \A i \in DOMAIN apCorrInfoDict : \A s \in 1..NSources :
            LET info == apCorrInfoDict[i]
            IN (EvaluatedAt(info, s) /\ ApCorrAt(info, s) > 0) =>
                 /\ cat[s][info.instFluxKey]
                      = catInput.instFlux * Pow(ApCorrAt(info, s), runs)
                 /\ (ApCorrAt(info, s) # 1 /\ catInput.instFlux # 0) =>
                      cat[s][info.instFluxKey] # catAtStart[s][info.instFluxKey]

\* The second run has returned: flux 3 under apCorr 2 was 6 when the second
\* run started and is 12 now.
C14_Witness ==
    /\ RunReturned
    /\ runs = 2
    /\ \E i \in DOMAIN apCorrInfoDict : \E s \in 1..NSources :
         LET info == apCorrInfoDict[i]
         IN /\ EvaluatedAt(info, s)
            /\ ApCorrAt(info, s) = 2
            /\ catInput.instFlux = 3
            /\ catAtStart[s][info.instFluxKey] = 6
            /\ cat[s][info.instFluxKey] = 12

\* C15: with doFlagApCorrFailures enabled, the general failure flag a run
\* is about to restore is the one the source had before it was processed,
\* and once the run has returned every corrected source has the general
\* failure flag it had before: a flag that was set is not cleared.
C15_SuccessRestoresFluxFlag ==
    apConfig.doFlagApCorrFailures =>
        /\ apPc \in {"clearApCorrFlag", "restoreFluxFlag"} =>
             loc.oldFluxFlagState = catAtStart[srcIdx][Info.fluxFlagKey]
        /\ RunReturned =>
             \A i \in DOMAIN apCorrInfoDict : \A s \in 1..NSources :
                 LET info == apCorrInfoDict[i]
                 IN (EvaluatedAt(info, s) /\ ApCorrAt(info, s) > 0) =>
                      cat[s][info.fluxFlagKey] = catAtStart[s][info.fluxFlagKey]

\* A returned run, doFlagApCorrFailures enabled, that corrected a source
\* whose general failure flag was set: the flag is still set.
C15_Witness ==
    /\ RunReturned
    /\ apConfig.doFlagApCorrFailures
    /\ \E i \in DOMAIN apCorrInfoDict : \E s \in 1..NSources :
         LET info == apCorrInfoDict[i]
         IN /\ outcome[<<info.name, s>>] = "corrected"
            /\ catAtStart[s][info.fluxFlagKey] = TRUE
            /\ cat[s][info.fluxFlagKey] = TRUE
            /\ cat[s][info.apCorrFlagKey] = FALSE

\* The flux of field info at source s was written in this run and its flux
\* error was not yet.
PartlyUpdated(info, s) ==
    /\ cat[s][info.instFluxKey] # catAtStart[s][info.instFluxKey]
    /\ cat[s][info.instFluxErrKey] = catAtStart[s][info.instFluxErrKey]

\* C16: while a source of a field whose models are present is being
\* processed, from the first write to it (line 233) until line 264 its
\* ap-corr failure flag is true, and with doFlagApCorrFailures enabled its
\* general failure flag is true from line 237 until line 266; in no state is
\* a source's ap-corr flag false while its flux is written and its flux
\* error is not.
C16_FailedUntilSucceeded ==
    /\ apPc \in {"flagFlux", "evaluate", "writeApCorr", "writeApCorrErr", "check",
                 "setFlux", "setFluxErr", "clearApCorrFlag"} =>
         cat[srcIdx][Info.apCorrFlagKey] = TRUE
    /\ ( /\ apConfig.doFlagApCorrFailures
         /\ apPc \in {"evaluate", "writeApCorr", "writeApCorrErr", "check",
                      "setFlux", "setFluxErr", "clearApCorrFlag",
                      "restoreFluxFlag"} ) =>
         cat[srcIdx][Info.fluxFlagKey] = TRUE
    /\ apPc \notin {"new", "idle"} =>
         \A i \in DOMAIN apCorrInfoDict : \A s \in 1..NSources :
             PartlyUpdated(apCorrInfoDict[i], s) =>
                 cat[s][apCorrInfoDict[i].apCorrFlagKey] = TRUE

\* In the second run, a source corrected by the first run (so unflagged
\* when this run began) has its flux written and its flux error not yet,
\* and neither flag had been set on it before the first run.
C16_Witness ==
    /\ runs = 2
    /\ apPc = "setFluxErr"
    /\ apConfig.doFlagApCorrFailures
    /\ PartlyUpdated(Info, srcIdx)
    /\ catAtStart[srcIdx][Info.apCorrFlagKey] = FALSE
    /\ catAtStart[srcIdx][Info.fluxFlagKey] = FALSE
    /\ cat[srcIdx][Info.apCorrFlagKey] = TRUE
    /\ cat[srcIdx][Info.fluxFlagKey] = TRUE

\* C19 (as claimed): once the run has returned, a source at which the
\* evaluation of a field's model raised a DomainError holds, in the
\* correction columns the field owns, the neutral values apCorr = 1.0 and
\* apCorrErr = 0.0, and its ap-corr failure flag is true.
C19_Claimed ==
    RunReturned =>
        \A i \in DOMAIN apCorrInfoDict : \A s \in 1..NSources :
            LET info == apCorrInfoDict[i]
            IN ( /\ ~AbsentFromMap(info)
                 /\ DomainErrorAt(info, s)
                 /\ info.doApCorrColumn ) =>
                 /\ cat[s][info.apCorrKey] = Float(1)
                 /\ cat[s][info.apCorrErrKey] = Float(0)
                 /\ cat[s][info.apCorrFlagKey] = TRUE

\* The constructed task has an ApCorrInfo for name, corrected by model.
HasInfo(name, model) ==
    \E i \in DOMAIN apCorrInfoDict :
        apCorrInfoDict[i].name = name /\ ModelOf(apCorrInfoDict[i]) = model

\* The direct step built an ApCorrInfo for name.
BuiltDirectly(name) ==
    /\ name \in ApCorrNameSet \ apConfig.ignoreList
    /\ Field(name, "instFlux") \in schema.fields

\* C20 (as claimed): after construction, every proxies entry name -> model
\* whose name has no direct ApCorrInfo and whose name_instFlux is in the
\* schema has an ApCorrInfo for name with the mapped model, a registered name
\* excluded by ignoreList included.
C20_Claimed ==
    apPc # "new" =>
        \A name \in DOMAIN apConfig.proxies :
            (~BuiltDirectly(name) /\ Field(name, "instFlux") \in schema.fields) =>
                HasInfo(name, apConfig.proxies[name])

\* C20, amended: after construction, a proxies entry name -> model has an
\* ApCorrInfo with the mapped model exactly when name is not a registered
\* flux algorithm and name_instFlux is in the schema; a registered name is
\* skipped by the proxy step whether the direct step built it or ignoreList
\* excluded it, and an ignored registered name has no ApCorrInfo at all.
C20_ProxiesOnlyForUnregistered ==
    apPc # "new" =>
        /\ \A name \in DOMAIN apConfig.proxies :
             HasInfo(name, apConfig.proxies[name])
                 <=> ( /\ name \notin ApCorrNameSet
                       /\ Field(name, "instFlux") \in schema.fields )
        /\ \A name \in ApCorrNameSet \cap apConfig.ignoreList :
             \A i \in DOMAIN apCorrInfoDict : apCorrInfoDict[i].name # name

\* A constructed task whose proxies map the registered, ignored algorithm A,
\* measured in the schema, to C: no ApCorrInfo for A; and the unregistered B
\* to A: an ApCorrInfo for B.
C20_Witness ==
    /\ apPc # "new"
    /\ "A" \in DOMAIN apConfig.proxies
    /\ "A" \in ApCorrNameSet \cap apConfig.ignoreList
    /\ Field("A", "instFlux") \in schema.fields
    /\ \A i \in DOMAIN apCorrInfoDict : apCorrInfoDict[i].name # "A"
    /\ HasInfo("B", "A")

\* Every flux name a configuration, the registry or a schema mentions.
AllNames == ApCorrNameSet \cup UNION IgnoreLists \cup UNION SchemaNameSets

\* C21: after construction, a name has a direct ApCorrInfo (model = name)
\* exactly when it is registered, not in ignoreList, and name_instFlux is in
\* the schema; construction completes for every configuration and schema,
\* and the names it warned about are the ignoreList names that are not
\* registered.
C21_DirectEntriesExact ==
    apPc # "new" =>
        /\ \A name \in AllNames :
             HasInfo(name, name)
                 <=> ( /\ name \in ApCorrNameSet
                       /\ name \notin apConfig.ignoreList
                       /\ Field(name, "instFlux") \in schema.fields )
        /\ apInitWarned = apConfig.ignoreList \ ApCorrNameSet

\* A constructed task, run once, whose ignoreList named only the
\* unregistered B (warned about): the registered C, measured, was built, and
\* the registered A, not in the schema, was skipped.
C21_Witness ==
    /\ RunReturned
    /\ apConfig.ignoreList = {"B"}
    /\ apInitWarned = {"B"}
    /\ Field("C", "instFlux") \in schema.fields
    /\ HasInfo("C", "C")
    /\ "A" \in ApCorrNameSet \ apConfig.ignoreList
    /\ Field("A", "instFlux") \notin schema.fields
    /\ ~HasInfo("A", "A")

\* The correction of field info failed at source s in the latest run, after
\* both models were found: a DomainError, or a rejected apCorr (apCorrErr
\* is 0.0 in naive mode and is never the reason).
FailedWithModels(info, s) ==
    /\ ~AbsentFromMap(info)
    /\ \/ DomainErrorAt(info, s) /\ outcome[<<info.name, s>>] = "domainError"
       \/ /\ EvaluatedAt(info, s)
          /\ ApCorrAt(info, s) <= 0
          /\ outcome[<<info.name, s>>] = "rejected"

BothModelsPresent(info) ==
    /\ info.modelName \in DOMAIN apCorrMap
    /\ info.modelSigmaName \in DOMAIN apCorrMap
    /\ apCorrMap[info.modelName] = "present"
    /\ apCorrMap[info.modelSigmaName] = "present"

\* The evaluation at source s raised no DomainError and gave apCorr > 0
\* (and apCorrErr >= 0: it is 0.0 in naive mode).
GoodCorrection(info, s) ==
    /\ <<info.modelName, s>> \in DOMAIN evals
    /\ ~evals[<<info.modelName, s>>].domainError
    /\ evals[<<info.modelName, s>>].value > 0

\* The latest run wrote the flux and the flux error of field info at source
\* s: they are what the run started from, scaled by the evaluated apCorr.
UpdatedThisRun(info, s) ==
    /\ outcome[<<info.name, s>>] = "corrected"
    /\ cat[s][info.instFluxKey]
         = catAtStart[s][info.instFluxKey] * ApCorrAt(info, s)
    /\ cat[s][info.instFluxErrKey]
         = catAtStart[s][info.instFluxErrKey] * ApCorrAt(info, s)

OtherKeys(info) ==
    { info.instFluxKey, info.instFluxErrKey, info.fluxFlagKey,
      info.apCorrKey, info.apCorrErrKey }

----------------------------------------------------------------------------
(* Properties of fetchReferences *)

\* The ids of the records in the catalog.
ReferenceIds == { references[i].id : i \in DOMAIN references }

\* C17 (as claimed): whatever fetchInBox returned, every record of the
\* returned catalog has a Footprint of non-zero area, and every record of it
\* with a non-zero parent id has its parent in the returned catalog.
C17_Claimed ==
    frPc = "done" =>
        \A i \in DOMAIN references :
            /\ ~BadFootprint(references[i])
            /\ references[i].parent # 0 => references[i].parent \in ReferenceIds

\* The half of C17 that holds: every record of the catalog, while it is
\* built and when it is returned, has a Footprint of non-zero area.
C17_FootprintsValid ==
    frPc \in {"loop", "done"} =>
        \A i \in DOMAIN references :
            /\ references[i].footprint # NoFootprint
            /\ references[i].footprint # Footprint(0)

\* C18 (as claimed): the returned catalog is in ascending order of record id.
C18_Claimed ==
    frPc = "done" =>
        \A i, j \in DOMAIN references :
            i < j => references[i].id < references[j].id

=============================================================================
